---- MODULE Spec2Model ----
(***************************************************************************)
(* AutoNestCut nester (cpp/src/geometry.cpp, nesting.h, nesting.cpp).      *)
(*                                                                         *)
(* Lengths are the program's doubles on a fixed grid: one model unit is    *)
(* 0.005 length units, so the two tolerances of the code are integers      *)
(* (0.1 -> 20 units, 0.01 -> 2 units) and lengths that differ by less than *)
(* a tolerance without being equal exist in the model.  Arithmetic on the  *)
(* grid is exact.                                                          *)
(***************************************************************************)
EXTENDS Integers, Sequences, FiniteSets, TLC

VARIABLES
    pc,                     \* position in nest_parts / in the geometry harness
    kerf,                   \* settings_.kerf_width
    board_width,            \* nest_parts argument
    board_height,           \* nest_parts argument
    parts,                  \* the caller's std::vector<Part>, sorted in place
    boards,                 \* std::vector<Board> boards
    remaining_parts,        \* std::vector<Part*>, as indices into parts
    parts_for_next_board,   \* std::vector<Part*>, as indices into parts
    pos,                    \* position of the range-for over remaining_parts
    board_count,            \* int board_count
    placed_count,           \* size_t placed_count
    diag,                   \* part named by the ERROR line on std::cerr (0: none)
    attempts,               \* history: <<board id, part index>> of every try_place_part call
    last,                   \* history: the most recent try_place_part call
    geom                    \* geometry harness: the rectangles and subtract_rect's result

vars == <<pc, kerf, board_width, board_height, parts, boards, remaining_parts,
          parts_for_next_board, pos, board_count, placed_count, diag, attempts,
          last, geom>>

----------------------------------------------------------------------------
(* Bounds of the model and the inputs drawn in Init *)

MaxParts == 3

MaxPlaced == 3

GeomMax == 3

\* 0.1 and 0.01 in grid units
FullSheetTol == 20

SortTol == 2

BoardSizes == { <<60, 40>>, <<30, 30>> }

Kerfs == { 0, 1, 3 }

\* width, height, allowed_rotations.  The driver gives every part <<0>> or
\* <<0, 90>>; a Part the caller fills no rotations into keeps the empty vector.
PartTypes ==
    { <<20, 11, <<0, 90>>>>,    \* three parts that share a board's bottom row,
      <<20, 10, <<0>>>>,        \*   their heights within the sort tolerance
      <<18,  9, <<0>>>>,
      <<60, 40, <<0>>>>,        \* the full sheet (of the 60 x 40 board)
      <<61, 41, <<0>>>>,        \* larger than the sheet, within the 0.1 tolerance
      <<40, 60, <<0, 90>>>>,    \* the full sheet once rotated
      <<10, 45, <<0, 90>>>>,    \* fits only rotated
      <<45, 25, <<0>>>>,        \* within the tolerance of the sheet, smaller
      <<90, 90, <<0, 90>>>>,    \* fits no board
      <<30, 20, <<>>>> }        \* no rotation allowed at all

----------------------------------------------------------------------------
(* geometry.h / geometry.cpp *)

Abs(a) == IF a < 0 THEN -a ELSE a

Max2(a, b) == IF a >= b THEN a ELSE b

Min2(a, b) == IF a <= b THEN a ELSE b

Rect(x_, y_, w_, h_) == [x |-> x_, y |-> y_, width |-> w_, height |-> h_]

right(r) == r.x + r.width

bottom(r) == r.y + r.height

rect_area(r) == r.width * r.height

is_valid(r) == r.width > 0 /\ r.height > 0

intersects(r1, r2) ==
    ~(right(r1) <= r2.x \/ right(r2) <= r1.x \/ bottom(r1) <= r2.y \/ bottom(r2) <= r1.y)

\* faulty variant of subtract_rect: the bottom and top pieces span the whole
\* width of the original instead of the intersection's
subtract_rect_full_width(original, to_subtract) ==
    LET ix1 == Max2(original.x, to_subtract.x)
        iy1 == Max2(original.y, to_subtract.y)
        ix2 == Min2(right(original), right(to_subtract))
        iy2 == Min2(bottom(original), bottom(to_subtract))
    IN  IF ix2 <= ix1 \/ iy2 <= iy1
        THEN << original >>
        ELSE (IF original.x < ix1
              THEN << Rect(original.x, original.y, ix1 - original.x, original.height) >>
              ELSE << >>)
          \o (IF right(original) > ix2
              THEN << Rect(ix2, original.y, right(original) - ix2, original.height) >>
              ELSE << >>)
          \o (IF original.y < iy1
              THEN << Rect(original.x, original.y, original.width, iy1 - original.y) >>
              ELSE << >>)
          \o (IF bottom(original) > iy2
              THEN << Rect(original.x, iy2, original.width, bottom(original) - iy2) >>
              ELSE << >>)

subtract_rect(original, to_subtract) ==
    LET ix1 == Max2(original.x, to_subtract.x)
        iy1 == Max2(original.y, to_subtract.y)
        ix2 == Min2(right(original), right(to_subtract))
        iy2 == Min2(bottom(original), bottom(to_subtract))
    IN  IF ix2 <= ix1 \/ iy2 <= iy1
        THEN << original >>
        ELSE (IF original.x < ix1
              THEN << Rect(original.x, original.y, ix1 - original.x, original.height) >>
              ELSE << >>)
          \o (IF right(original) > ix2
              THEN << Rect(ix2, original.y, right(original) - ix2, original.height) >>
              ELSE << >>)
          \o (IF original.y < iy1
              THEN << Rect(ix1, original.y, ix2 - ix1, iy1 - original.y) >>
              ELSE << >>)
          \o (IF bottom(original) > iy2
              THEN << Rect(ix1, iy2, ix2 - ix1, bottom(original) - iy2) >>
              ELSE << >>)

----------------------------------------------------------------------------
(* std::sort: any arrangement the comparator allows.  Equivalent elements    *)
(* may end in either order (the sort is not stable).  A comparator that is   *)
(* not a strict weak ordering on the elements breaks std::sort's             *)
(* precondition: the result is then some arrangement of the elements, none   *)
(* of them guaranteed.                                                       *)

\* lt: the pairs <<i, j>> of places of s with comp(s[i], s[j])
Arrangements(s) ==
    IF s = << >> THEN { << >> }
    ELSE { [i \in 1..Len(s) |-> s[p[i]]] : p \in Permutations(1..Len(s)) }

StrictWeak(n, lt) ==
    LET I == 1..n
        eq(i, j) == << i, j >> \notin lt /\ << j, i >> \notin lt
    IN  /\ \A i, j \in I : << i, j >> \in lt => << j, i >> \notin lt
        /\ \A i, j, k \in I : << i, j >> \in lt /\ << j, k >> \in lt => << i, k >> \in lt
        /\ \A i, j, k \in I : eq(i, j) /\ eq(j, k) => eq(i, k)

StdSort(s, lt) ==
    IF s = << >> THEN { << >> }
    ELSE IF StrictWeak(Len(s), lt)
    THEN { [i \in 1..Len(s) |-> s[p[i]]] :
             p \in { q \in Permutations(1..Len(s)) :
                       \A i, j \in 1..Len(s) : i < j => << q[j], q[i] >> \notin lt } }
    ELSE Arrangements(s)

----------------------------------------------------------------------------
(* nesting.h: Part and Board *)

Part(w, h, rots) ==
    [width |-> w, height |-> h, allowed_rotations |-> rots,
     x |-> 0, y |-> 0, rotation |-> 0, board_id |-> -1]

part_area(p) == p.width * p.height

\* <<w, h>> after rotation
get_rotated_dimensions(p, rot) ==
    IF rot = 90 \/ rot = 270 THEN << p.height, p.width >> ELSE << p.width, p.height >>

Board(id_, w, h) ==
    [id |-> id_, width |-> w, height |-> h,
     free_rectangles |-> << Rect(0, 0, w, h) >>,
     placed_parts |-> << >>]

----------------------------------------------------------------------------
(* nesting.cpp: Board::find_best_position *)

NotFound == [found |-> FALSE, x |-> 0, y |-> 0]

Found(x_, y_) == [found |-> TRUE, x |-> x_, y |-> y_]

\* the scan of the free rectangles, in list order
first_fit(b, effective_width, effective_height) ==
    LET fits == { i \in 1..Len(b.free_rectangles) :
                    LET rect == b.free_rectangles[i]
                    IN  /\ effective_width <= rect.width
                        /\ effective_height <= rect.height
                        /\ rect.x + effective_width <= b.width
                        /\ rect.y + effective_height <= b.height }
    IN  IF fits = {} THEN NotFound
        ELSE LET i == CHOOSE m \in fits : \A n \in fits : m <= n
             IN  Found(b.free_rectangles[i].x, b.free_rectangles[i].y)

\* faulty variant of find_best_position: no full-sheet special case
find_best_position_no_special_case(b, part_width, part_height, k) ==
    first_fit(b, part_width + k, part_height + k)

find_best_position(b, part_width, part_height, k) ==
    IF /\ b.placed_parts = << >>
       /\ Abs(part_width - b.width) < FullSheetTol
       /\ Abs(part_height - b.height) < FullSheetTol
    THEN Found(0, 0)
    ELSE first_fit(b, part_width + k, part_height + k)

----------------------------------------------------------------------------
(* nesting.cpp: Board::add_part *)

\* faulty variant of placed_rect: the kerf is left out of the placed region
placed_rect_no_kerf(p, x_, y_, k) ==
    LET d == get_rotated_dimensions(p, p.rotation)
    IN  Rect(x_, y_, d[1], d[2])

\* Rect placed_rect(x, y, w + kerf, h + kerf)
placed_rect(p, x_, y_, k) ==
    LET d == get_rotated_dimensions(p, p.rotation)
    IN  Rect(x_, y_, d[1] + k, d[2] + k)

\* faulty variant of updated_free_rects: a free rectangle the placed region
\* cuts is dropped whole
RECURSIVE updated_free_rects_drop_cut(_, _)
updated_free_rects_drop_cut(free, placed) ==
    IF free = << >> THEN << >>
    ELSE (IF intersects(Head(free), placed) THEN << >> ELSE << Head(free) >>)
         \o updated_free_rects_drop_cut(Tail(free), placed)

RECURSIVE updated_free_rects(_, _)
updated_free_rects(free, placed) ==
    IF free = << >> THEN << >>
    ELSE (IF intersects(Head(free), placed)
          THEN SelectSeq(subtract_rect(Head(free), placed), is_valid)
          ELSE << Head(free) >>)
         \o updated_free_rects(Tail(free), placed)

\* the comparator of the trailing std::sort
free_rect_less(a, b) ==
    IF Abs(a.y - b.y) < SortTol THEN a.x < b.x ELSE a.y < b.y

free_rect_order(free) ==
    { ij \in (1..Len(free)) \X (1..Len(free)) : free_rect_less(free[ij[1]], free[ij[2]]) }

\* faulty variant of add_part: the board id is not recorded on the part
add_part_no_board_id(b, p, pi, x_, y_, k) ==
    LET placed == [p EXCEPT !.x = x_, !.y = y_]
        free   == updated_free_rects(b.free_rectangles, placed_rect(placed, x_, y_, k))
    IN  { [part  |-> placed,
           board |-> [b EXCEPT !.free_rectangles = sorted,
                               !.placed_parts = Append(@, pi)]] :
          sorted \in StdSort(free, free_rect_order(free)) }

\* The outcomes of add_part: the part and the board after it, one per
\* arrangement the trailing sort may leave.
add_part(b, p, pi, x_, y_, k) ==
    LET placed == [p EXCEPT !.x = x_, !.y = y_, !.board_id = b.id]
        free   == updated_free_rects(b.free_rectangles, placed_rect(placed, x_, y_, k))
    IN  { [part  |-> placed,
           board |-> [b EXCEPT !.free_rectangles = sorted,
                               !.placed_parts = Append(@, pi)]] :
          sorted \in StdSort(free, free_rect_order(free)) }

\* Board::used_area: the areas of the placed parts, added up
used_area(b, ps) ==
    LET RECURSIVE sum(_)
        sum(i) == IF i = 0 THEN 0 ELSE part_area(ps[b.placed_parts[i]]) + sum(i - 1)
    IN  sum(Len(b.placed_parts))

\* Board::waste_percentage, as the fraction num / den it returns: 0 for a
\* board of no area, else (total - used_area) / total * 100
waste_percentage(b, ps) ==
    LET total == b.width * b.height
    IN  IF total = 0
        THEN [num |-> 0, den |-> 1]
        ELSE [num |-> (total - used_area(b, ps)) * 100, den |-> total]

----------------------------------------------------------------------------
(* nesting.cpp: Nester::try_place_part *)

\* find_best_position for the rotation at place r of the part's list
rotation_call(p, b, k, r) ==
    LET rot == p.allowed_rotations[r]
        d   == get_rotated_dimensions(p, rot)
    IN  [rotation |-> rot, w |-> d[1], h |-> d[2],
         res |-> find_best_position(b, d[1], d[2], k)]

\* the rotations the loop reaches: all of them, or up to the first that fits
rotations_tried(p, b, k) ==
    LET n    == Len(p.allowed_rotations)
        hits == { r \in 1..n : rotation_call(p, b, k, r).res.found }
    IN  IF hits = {} THEN n ELSE CHOOSE m \in hits : \A r \in hits : m <= r

\* faulty variant of try_place_part: the rotation is not restored on failure
try_place_part_no_restore(p, pi, b, k) ==
    LET n     == rotations_tried(p, b, k)
        calls == [r \in 1..n |-> rotation_call(p, b, k, r)]
    IN  IF n > 0 /\ calls[n].res.found
        THEN { [ok |-> TRUE, part |-> o.part, board |-> o.board, calls |-> calls] :
               o \in add_part(b, [p EXCEPT !.rotation = calls[n].rotation], pi,
                              calls[n].res.x, calls[n].res.y, k) }
        ELSE { [ok |-> FALSE,
                part  |-> IF n = 0 THEN p ELSE [p EXCEPT !.rotation = calls[n].rotation],
                board |-> b, calls |-> calls] }

\* faulty variant of try_place_part: every rotation is tried and the last that
\* fits is committed
try_place_part_last_fit(p, pi, b, k) ==
    LET n     == Len(p.allowed_rotations)
        all   == [r \in 1..n |-> rotation_call(p, b, k, r)]
        hits  == { r \in 1..n : all[r].res.found }
        m     == IF hits = {} THEN n ELSE CHOOSE r \in hits : \A q \in hits : q <= r
        calls == [r \in 1..m |-> all[r]]
    IN  IF hits # {}
        THEN { [ok |-> TRUE, part |-> o.part, board |-> o.board, calls |-> calls] :
               o \in add_part(b, [p EXCEPT !.rotation = calls[m].rotation], pi,
                              calls[m].res.x, calls[m].res.y, k) }
        ELSE { [ok |-> FALSE, part |-> p, board |-> b, calls |-> calls] }

\* faulty variant of try_place_part: only the first allowed rotation is tried
try_place_part_first_rotation_only(p, pi, b, k) ==
    LET n     == Min2(1, Len(p.allowed_rotations))
        calls == [r \in 1..n |-> rotation_call(p, b, k, r)]
    IN  IF n > 0 /\ calls[n].res.found
        THEN { [ok |-> TRUE, part |-> o.part, board |-> o.board, calls |-> calls] :
               o \in add_part(b, [p EXCEPT !.rotation = calls[n].rotation], pi,
                              calls[n].res.x, calls[n].res.y, k) }
        ELSE { [ok |-> FALSE, part |-> p, board |-> b, calls |-> calls] }

\* The outcomes of try_place_part(part, board): whether it placed the part,
\* the part and the board after the call, and the find_best_position calls
\* it made, in order.
try_place_part(p, pi, b, k) ==
    LET original_width    == p.width
        original_height   == p.height
        original_rotation == p.rotation
        n     == rotations_tried(p, b, k)
        calls == [r \in 1..n |-> rotation_call(p, b, k, r)]
    IN  IF n > 0 /\ calls[n].res.found
        THEN { [ok |-> TRUE, part |-> o.part, board |-> o.board, calls |-> calls] :
               o \in add_part(b, [p EXCEPT !.rotation = calls[n].rotation], pi,
                              calls[n].res.x, calls[n].res.y, k) }
        ELSE LET tried == IF n = 0 THEN p ELSE [p EXCEPT !.rotation = calls[n].rotation]
             IN  { [ok |-> FALSE,
                    part  |-> [tried EXCEPT !.width = original_width,
                                            !.height = original_height,
                                            !.rotation = original_rotation],
                    board |-> b, calls |-> calls] }

----------------------------------------------------------------------------
(* nesting.cpp: Nester::nest_parts *)

\* faulty variant of part_less: smaller area first
part_less_ascending(a, b) == part_area(a) < part_area(b)

\* the comparator of the std::sort over the parts: larger area first
part_less(a, b) == part_area(a) > part_area(b)

part_order(ps) ==
    { ij \in (1..Len(ps)) \X (1..Len(ps)) : part_less(ps[ij[1]], ps[ij[2]]) }

NoCall ==
    [pi |-> 0, board_id |-> 0, ok |-> FALSE, calls |-> << >>,
     part_before |-> Part(0, 0, << >>), board_before |-> Board(0, 0, 0)]

NoGeom == [R |-> Rect(0, 0, 0, 0), C |-> Rect(0, 0, 0, 0), out |-> << >>]

Inputs ==
    UNION { [1..n -> { Part(t[1], t[2], t[3]) : t \in PartTypes }] : n \in 0..MaxParts }

Init ==
    /\ pc = "sort"
    /\ kerf \in Kerfs
    /\ \E size \in BoardSizes : board_width = size[1] /\ board_height = size[2]
    /\ parts \in Inputs
    /\ boards = << >>
    /\ remaining_parts = << >>
    /\ parts_for_next_board = << >>
    /\ pos = 0
    /\ board_count = 0
    /\ placed_count = 0
    /\ diag = 0
    /\ attempts = << >>
    /\ last = NoCall
    /\ geom = NoGeom

\* lines 130-146: sort the parts, queue them all
SortParts ==
    /\ pc = "sort"
    /\ parts' \in StdSort(parts, part_order(parts))
    /\ remaining_parts' = [i \in 1..Len(parts) |-> i]
    /\ pc' = "loop"
    /\ UNCHANGED <<kerf, board_width, board_height, boards, parts_for_next_board, pos,
                   board_count, placed_count, diag, attempts, last, geom>>

\* lines 148-153: the queue is not empty, open a board
OpenBoard ==
    /\ pc = "loop"
    /\ remaining_parts # << >>
    /\ board_count' = board_count + 1
    /\ boards' = Append(boards, Board(board_count + 1, board_width, board_height))
    /\ parts_for_next_board' = << >>
    /\ pos' = 1
    /\ pc' = "place"
    /\ UNCHANGED <<kerf, board_width, board_height, parts, remaining_parts,
                   placed_count, diag, attempts, last, geom>>

\* lines 155-167: one turn of the for loop over remaining_parts
PlaceNext ==
    /\ pc = "place"
    /\ LET pi == remaining_parts[pos]
           b  == boards[Len(boards)]
       IN  \E o \in try_place_part(parts[pi], pi, b, kerf) :
             /\ parts' = [parts EXCEPT ![pi] = o.part]
             /\ boards' = [boards EXCEPT ![Len(boards)] = o.board]
             /\ placed_count' = IF o.ok THEN placed_count + 1 ELSE placed_count
             /\ parts_for_next_board' =
                  IF o.ok THEN parts_for_next_board ELSE Append(parts_for_next_board, pi)
             /\ attempts' = Append(attempts, << b.id, pi >>)
             /\ last' = [pi |-> pi, board_id |-> b.id, ok |-> o.ok, calls |-> o.calls,
                         part_before |-> parts[pi], board_before |-> b]
    /\ pos' = pos + 1
    /\ pc' = IF pos = Len(remaining_parts) THEN "check" ELSE "place"
    /\ UNCHANGED <<kerf, board_width, board_height, remaining_parts, board_count,
                   diag, geom>>

\* faulty variant of Unplaceable: the empty board stays in the result
Unplaceable_keeps_board ==
    /\ pc = "check"
    /\ boards[Len(boards)].placed_parts = << >>
    /\ remaining_parts # << >>
    /\ diag' = remaining_parts[1]
    /\ pc' = "done"
    /\ UNCHANGED <<kerf, board_width, board_height, parts, boards, remaining_parts,
                   parts_for_next_board, pos, board_count, placed_count, attempts,
                   last, geom>>

\* lines 170-181: the board stayed empty: report the first queued part, drop
\* the board, leave the loop
Unplaceable ==
    /\ pc = "check"
    /\ boards[Len(boards)].placed_parts = << >>
    /\ remaining_parts # << >>
    /\ diag' = remaining_parts[1]
    /\ boards' = SubSeq(boards, 1, Len(boards) - 1)
    /\ pc' = "done"
    /\ UNCHANGED <<kerf, board_width, board_height, parts, remaining_parts,
                   parts_for_next_board, pos, board_count, placed_count, attempts,
                   last, geom>>

\* faulty variant of NextBoard: the queue is not replaced by the parts the
\* board did not take
NextBoard_keeps_queue ==
    /\ pc = "check"
    /\ ~(boards[Len(boards)].placed_parts = << >> /\ remaining_parts # << >>)
    /\ pc' = "loop"
    /\ UNCHANGED <<kerf, board_width, board_height, parts, boards, remaining_parts,
                   parts_for_next_board, pos, board_count, placed_count, diag,
                   attempts, last, geom>>

\* line 183: the board took a part: go on with the parts it did not take
NextBoard ==
    /\ pc = "check"
    /\ ~(boards[Len(boards)].placed_parts = << >> /\ remaining_parts # << >>)
    /\ remaining_parts' = parts_for_next_board
    /\ pc' = "loop"
    /\ UNCHANGED <<kerf, board_width, board_height, parts, boards,
                   parts_for_next_board, pos, board_count, placed_count, diag,
                   attempts, last, geom>>

\* lines 148, 186-189: the queue is empty: return the boards
Return ==
    /\ pc = "loop"
    /\ remaining_parts = << >>
    /\ pc' = "done"
    /\ UNCHANGED <<kerf, board_width, board_height, parts, boards, remaining_parts,
                   parts_for_next_board, pos, board_count, placed_count, diag,
                   attempts, last, geom>>

Next == SortParts \/ OpenBoard \/ PlaceNext \/ Unplaceable \/ NextBoard \/ Return

Spec == Init /\ [][Next]_vars

----------------------------------------------------------------------------
(* The geometry primitives on their own: subtract_rect applied to every pair *)
(* of valid rectangles of a small grid.                                      *)

GeomRects ==
    { Rect(x_, y_, w_, h_) : x_ \in 0..(GeomMax - 1), y_ \in 0..(GeomMax - 1),
                             w_ \in 1..GeomMax, h_ \in 1..GeomMax }

InitGeom ==
    /\ pc = "geom"
    /\ geom \in [R : GeomRects, C : GeomRects, out : { << >> }]
    /\ kerf = 0
    /\ board_width = 0
    /\ board_height = 0
    /\ parts = << >>
    /\ boards = << >>
    /\ remaining_parts = << >>
    /\ parts_for_next_board = << >>
    /\ pos = 0
    /\ board_count = 0
    /\ placed_count = 0
    /\ diag = 0
    /\ attempts = << >>
    /\ last = NoCall

Subtract ==
    /\ pc = "geom"
    /\ geom' = [geom EXCEPT !.out = subtract_rect(geom.R, geom.C)]
    /\ pc' = "geomdone"
    /\ UNCHANGED <<kerf, board_width, board_height, parts, boards, remaining_parts,
                   parts_for_next_board, pos, board_count, placed_count, diag,
                   attempts, last>>

NextGeom == Subtract

SpecGeom == InitGeom /\ [][NextGeom]_vars

----------------------------------------------------------------------------
(* A Board on its own: any sequence of placements, each the position         *)
(* find_best_position returns handed to add_part, for parts of any of the    *)
(* dimensions above in any order and either rotation.                        *)

InitBoard ==
    /\ pc = "board"
    /\ kerf \in Kerfs
    /\ \E size \in BoardSizes : board_width = size[1] /\ board_height = size[2]
    /\ boards = << Board(1, board_width, board_height) >>
    /\ parts = << >>
    /\ remaining_parts = << >>
    /\ parts_for_next_board = << >>
    /\ pos = 0
    /\ board_count = 1
    /\ placed_count = 0
    /\ diag = 0
    /\ attempts = << >>
    /\ last = NoCall
    /\ geom = NoGeom

PlaceAny ==
    /\ pc = "board"
    /\ Len(parts) < MaxPlaced
    /\ \E t \in PartTypes, rot \in { 0, 90 } :
         LET p  == [Part(t[1], t[2], t[3]) EXCEPT !.rotation = rot]
             d  == get_rotated_dimensions(p, rot)
             r  == find_best_position(boards[1], d[1], d[2], kerf)
             pi == Len(parts) + 1
         IN  /\ r.found
             /\ \E o \in add_part(boards[1], p, pi, r.x, r.y, kerf) :
                  /\ parts' = Append(parts, o.part)
                  /\ boards' = << o.board >>
             /\ last' = [pi |-> pi, board_id |-> 1, ok |-> TRUE,
                         calls |-> << [rotation |-> rot, w |-> d[1], h |-> d[2], res |-> r] >>,
                         part_before |-> p, board_before |-> boards[1]]
    /\ placed_count' = placed_count + 1
    /\ UNCHANGED <<pc, kerf, board_width, board_height, remaining_parts,
                   parts_for_next_board, pos, board_count, diag, attempts, geom>>

NextPlacement == PlaceAny

SpecBoard == InitBoard /\ [][NextPlacement]_vars

----------------------------------------------------------------------------
(* Vocabulary of the properties below, stated on unit cells and coordinates  *)
(* rather than through the operators above.                                  *)

\* the unit cells a rectangle covers
Cells(r) ==
    { << i, j >> : i \in r.x..(r.x + r.width - 1), j \in r.y..(r.y + r.height - 1) }

\* half-open overlap: touching at an edge or a corner is no overlap
Overlap(a, b) ==
    /\ a.x < b.x + b.width
    /\ b.x < a.x + a.width
    /\ a.y < b.y + b.height
    /\ b.y < a.y + a.height

Inside(a, b) ==
    /\ b.x <= a.x
    /\ b.y <= a.y
    /\ a.x + a.width <= b.x + b.width
    /\ a.y + a.height <= b.y + b.height

RECURSIVE AreaSum(_)
AreaSum(rs) == IF rs = << >> THEN 0 ELSE Head(rs).width * Head(rs).height + AreaSum(Tail(rs))

\* the part of rectangle a inside rectangle b, as an area
CommonArea(a, b) ==
    LET w == Min2(a.x + a.width, b.x + b.width) - Max2(a.x, b.x)
        h == Min2(a.y + a.height, b.y + b.height) - Max2(a.y, b.y)
    IN  IF w > 0 /\ h > 0 THEN w * h ELSE 0

\* where a piece of R lies relative to the cut C: 1 left, 2 right, 3 bottom, 4 top
PieceSide(piece, C) ==
    IF piece.x + piece.width <= C.x THEN 1
    ELSE IF piece.x >= C.x + C.width THEN 2
    ELSE IF piece.y + piece.height <= C.y THEN 3
    ELSE IF piece.y >= C.y + C.height THEN 4
    ELSE 0

----------------------------------------------------------------------------
(* C7: for valid rectangles R and C, subtract_rect(R, C) is <<R>> when they  *)
(* do not intersect (touching at an edge or corner included); otherwise it   *)
(* is at most 4 rectangles of positive width and height, pairwise            *)
(* non-intersecting, each inside R and disjoint from C, covering exactly R   *)
(* minus C (areas: area(R) - area(R /\ C)), in the order left, right,        *)
(* bottom, top.                                                              *)
C7_SubtractRect ==
    pc = "geomdone" =>
        LET R   == geom.R
            C   == geom.C
            out == geom.out
            I   == 1..Len(out)
        IN  /\ Cells(R) \cap Cells(C) = {} <=> ~intersects(R, C)
            /\ ~intersects(R, C) => out = << R >>
            /\ intersects(R, C) =>
                 /\ Len(out) <= 4
                 /\ \A i \in I : out[i].width > 0 /\ out[i].height > 0
                 /\ \A i, j \in I : i # j => ~intersects(out[i], out[j])
                                             /\ Cells(out[i]) \cap Cells(out[j]) = {}
                 /\ \A i \in I : Inside(out[i], R) /\ ~intersects(out[i], C)
                 /\ UNION { Cells(out[i]) : i \in I } = Cells(R) \ Cells(C)
                 /\ AreaSum(out) = R.width * R.height - CommonArea(R, C)
                 /\ \A i \in I : PieceSide(out[i], C) # 0
                 /\ \A i, j \in I : i < j => PieceSide(out[i], C) < PieceSide(out[j], C)

\* a cut strictly inside R: all four pieces come back
C7_Witness ==
    /\ pc = "geomdone"
    /\ intersects(geom.R, geom.C)
    /\ Len(geom.out) = 4

----------------------------------------------------------------------------
(* Placements, as the returned boards and parts show them *)

\* (x, y, rotated_width + kerf, rotated_height + kerf) of a placed part
KerfRect(p) ==
    IF p.rotation = 90 \/ p.rotation = 270
    THEN Rect(p.x, p.y, p.height + kerf, p.width + kerf)
    ELSE Rect(p.x, p.y, p.width + kerf, p.height + kerf)

BoardRect(b) == Rect(0, 0, b.width, b.height)

\* the kerf-expanded rectangles of a board's parts, in placement order
KerfRects(b) == [i \in 1..Len(b.placed_parts) |-> KerfRect(parts[b.placed_parts[i]])]

\* the part's rotated dimensions are the board's, within the 0.1 tolerance
FullSheet(p, b) ==
    LET r == KerfRect(p)
    IN  /\ Abs(r.width - kerf - b.width) < FullSheetTol
        /\ Abs(r.height - kerf - b.height) < FullSheetTol

NoTwoOverlap(rs) == \A i, j \in 1..Len(rs) : i # j => ~Overlap(rs[i], rs[j])

----------------------------------------------------------------------------
(* C1, as stated: after nest_parts returns, on every board the kerf-expanded *)
(* rectangles of the placed parts are pairwise non-intersecting (half-open   *)
(* rule) and each lies within the board bounds.                              *)
C1_AsStated ==
    pc = "done" =>
        \A k \in 1..Len(boards) :
            LET rs == KerfRects(boards[k])
            IN  /\ NoTwoOverlap(rs)
                /\ \A i \in 1..Len(rs) : Inside(rs[i], BoardRect(boards[k]))

(* C1, amended: after nest_parts returns, on every board the kerf-expanded   *)
(* rectangles of the placed parts are pairwise non-intersecting, and each    *)
(* lies within the board bounds unless it belongs to the first part of its   *)
(* board and that part's rotated dimensions are within 0.1 of the board's    *)
(* (the full-sheet special case): that rectangle starts at (0, 0) and ends   *)
(* less than 0.1 + kerf beyond the board's width and height.                 *)
C1_NonOverlap ==
    pc = "done" =>
        \A k \in 1..Len(boards) :
            LET b  == boards[k]
                rs == KerfRects(b)
            IN  /\ NoTwoOverlap(rs)
                /\ \A i \in 1..Len(rs) :
                     \/ Inside(rs[i], BoardRect(b))
                     \/ /\ i = 1
                        /\ FullSheet(parts[b.placed_parts[i]], b)
                        /\ rs[i].x = 0 /\ rs[i].y = 0
                        /\ rs[i].width < b.width + FullSheetTol + kerf
                        /\ rs[i].height < b.height + FullSheetTol + kerf

\* a returned board with two parts and a positive kerf, and a returned board
\* whose full-sheet part reaches past it
C1_Witness ==
    /\ pc = "done"
    /\ kerf > 0
    /\ \E k \in 1..Len(boards) : Len(boards[k].placed_parts) = 2
    /\ \E k \in 1..Len(boards) :
         ~Inside(KerfRects(boards[k])[1], BoardRect(boards[k]))

----------------------------------------------------------------------------
(* C8: after any sequence of placements on a new Board, the free rectangles  *)
(* have positive width and height, are pairwise non-intersecting, lie inside *)
(* the board, are disjoint from every placed part's kerf-expanded rectangle, *)
(* and together with those rectangles (as far as they lie on the board)      *)
(* cover the board exactly: no area of the board is missing from, or counted *)
(* twice in, the free list.                                                  *)
C8_FreeSpace ==
    \A k \in 1..Len(boards) :
        LET b    == boards[k]
            free == b.free_rectangles
            rs   == KerfRects(b)
            F    == 1..Len(free)
            P    == 1..Len(rs)
        IN  /\ \A i \in F : free[i].width > 0 /\ free[i].height > 0
            /\ NoTwoOverlap(free)
            /\ \A i \in F : Inside(free[i], BoardRect(b))
            /\ \A i \in F, j \in P : ~Overlap(free[i], rs[j])
            /\ NoTwoOverlap(rs)
            /\ AreaSum(free) + AreaSum([j \in P |-> Rect(0, 0, CommonArea(rs[j], BoardRect(b)), 1)])
                 = b.width * b.height

\* a board holding three parts with four free rectangles around them
C8_Witness ==
    \E k \in 1..Len(boards) :
        /\ Len(boards[k].placed_parts) = 3
        /\ Len(boards[k].free_rectangles) = 4
        /\ kerf > 0

----------------------------------------------------------------------------
(* The find_best_position calls of the most recent try_place_part, against   *)
(* the board as it was when they were made.                                  *)

\* free rectangle f takes dimensions (w, h) with the kerf added
Qualifies(f, w, h, b) ==
    /\ f.width >= w + kerf
    /\ f.height >= h + kerf
    /\ f.x + w + kerf <= b.width
    /\ f.y + h + kerf <= b.height

\* the call is the full-sheet special case: an empty board, its own dimensions
IsFullSheetCall(c, b) ==
    /\ b.placed_parts = << >>
    /\ Abs(c.w - b.width) < FullSheetTol
    /\ Abs(c.h - b.height) < FullSheetTol

\* the result is the origin of the first qualifying free rectangle of the
\* list, or no position when none qualifies
IsFirstFit(c, b) ==
    LET free == b.free_rectangles
        Q    == { i \in 1..Len(free) : Qualifies(free[i], c.w, c.h, b) }
    IN  /\ c.res.found <=> Q # {}
        /\ c.res.found =>
             \E i \in Q : /\ \A j \in Q : i <= j
                          /\ c.res.x = free[i].x
                          /\ c.res.y = free[i].y

\* y ascending, then x ascending
YThenX(f, g) == f.y < g.y \/ (f.y = g.y /\ f.x <= g.x)

\* the result is the origin of the qualifying free rectangle lowest in y,
\* then in x
IsLowestFit(c, b) ==
    LET free == b.free_rectangles
        Q    == { i \in 1..Len(free) : Qualifies(free[i], c.w, c.h, b) }
    IN  c.res.found =>
          \E i \in Q : /\ \A j \in Q : YThenX(free[i], free[j])
                       /\ c.res.x = free[i].x
                       /\ c.res.y = free[i].y

----------------------------------------------------------------------------
(* C6: find_best_position on a board with no placed parts, for dimensions    *)
(* within 0.1 of the board's width and height, returns (0, 0) whatever the   *)
(* kerf; for any other dimensions, or on a board that holds a part, its      *)
(* answer is that of the fit test with the kerf added.                       *)
C6_FullSheet ==
    \A r \in 1..Len(last.calls) :
        LET c == last.calls[r]
            b == last.board_before
        IN  IF IsFullSheetCall(c, b)
            THEN c.res.found /\ c.res.x = 0 /\ c.res.y = 0
            ELSE IsFirstFit(c, b)

\* a full sheet accepted on an empty board although, with the kerf, no free
\* rectangle takes it
C6_Witness ==
    /\ kerf > 0
    /\ \E r \in 1..Len(last.calls) :
         LET c == last.calls[r]
             b == last.board_before
         IN  /\ IsFullSheetCall(c, b)
             /\ c.res.found
             /\ \A i \in 1..Len(b.free_rectangles) :
                  ~Qualifies(b.free_rectangles[i], c.w, c.h, b)

----------------------------------------------------------------------------
(* C9, as stated: outside the full-sheet special case find_best_position     *)
(* returns the origin of the first free rectangle, in list order, that takes *)
(* the dimensions with the kerf added and keeps them on the board, and no    *)
(* position exactly when there is none; every board's list is ordered by y   *)
(* ascending, then x ascending, so the rectangle chosen is the qualifying     *)
(* one with the lowest y, then the lowest x.                                  *)
C9_AsStated ==
    /\ \A r \in 1..Len(last.calls) :
         LET c == last.calls[r]
             b == last.board_before
         IN  ~IsFullSheetCall(c, b) => IsFirstFit(c, b) /\ IsLowestFit(c, b)
    /\ \A k \in 1..Len(boards) :
         LET free == boards[k].free_rectangles
         IN  \A i, j \in 1..Len(free) : i < j => YThenX(free[i], free[j])

\* C9 without the order of the list: the first qualifying rectangle of the
\* list is the one returned
C9_FirstFitOnly ==
    \A r \in 1..Len(last.calls) :
        LET c == last.calls[r]
            b == last.board_before
        IN  ~IsFullSheetCall(c, b) => IsFirstFit(c, b)

\* C9's choice alone: the rectangle returned is the lowest qualifying one
C9_LowestOnly ==
    \A r \in 1..Len(last.calls) :
        LET c == last.calls[r]
            b == last.board_before
        IN  ~IsFullSheetCall(c, b) => IsLowestFit(c, b)

\* the free rectangles of some board break std::sort's precondition: the
\* comparator is no strict weak ordering on them
C9_ComparatorInconsistent ==
    \E k \in 1..Len(boards) :
        ~StrictWeak(Len(boards[k].free_rectangles), free_rect_order(boards[k].free_rectangles))

----------------------------------------------------------------------------
(* The most recent try_place_part call: the part and the board before it     *)
(* (last.part_before, last.board_before) and after it.                       *)

PartAfter == parts[last.pi]

BoardAfter == boards[last.board_id]

\* width and height of the footprint at a rotation: swapped at 90 degrees
Footprint(p, rot) == IF rot = 90 THEN << p.height, p.width >> ELSE << p.width, p.height >>

\* find_best_position yields a position for the part at this rotation
Yields(p, b, rot) ==
    find_best_position(b, Footprint(p, rot)[1], Footprint(p, rot)[2], kerf).found

----------------------------------------------------------------------------
(* C4: try_place_part tries the allowed rotations in the order given and     *)
(* commits the first for which find_best_position yields a position: on      *)
(* success the part's rotation is that rotation, the region taken out of the *)
(* free space has the rotated dimensions (plus kerf) at the position found,  *)
(* and no later rotation is tried.  So a part that fits only in its          *)
(* 90-degree footprint ends with rotation = 90, and a part that fits at 0    *)
(* degrees is never placed rotated.                                          *)
C4_FirstRotation ==
    last.ok =>
        LET p    == last.part_before
            b    == last.board_before
            rots == p.allowed_rotations
            hits == { r \in 1..Len(rots) : Yields(p, b, rots[r]) }
            n    == Len(last.calls)
            fp   == Footprint(p, PartAfter.rotation)
            took == Rect(PartAfter.x, PartAfter.y, fp[1] + kerf, fp[2] + kerf)
            free == BoardAfter.free_rectangles
        IN  /\ n \in hits /\ \A r \in hits : n <= r
            /\ \A r \in 1..n : last.calls[r].rotation = rots[r]
            /\ PartAfter.rotation = rots[n]
            /\ PartAfter.x = last.calls[n].res.x /\ PartAfter.y = last.calls[n].res.y
            /\ \A i \in 1..Len(free) : ~Overlap(free[i], took)
            /\ AreaSum(b.free_rectangles) - AreaSum(free) = CommonArea(took, BoardRect(b))
            /\ Yields(p, b, 0) => PartAfter.rotation = 0
            /\ (~Yields(p, b, 0) /\ 90 \in { rots[r] : r \in 1..Len(rots) })
                  => PartAfter.rotation = 90

\* a part that fits the board only rotated, placed with rotation 90 on a board
\* that already holds a part
C4_Witness ==
    /\ last.ok
    /\ last.board_before.placed_parts # << >>
    /\ ~Yields(last.part_before, last.board_before, 0)
    /\ PartAfter.rotation = 90
    /\ KerfRect(PartAfter).width = PartAfter.height + kerf

\* a part that fits in both rotations, placed unrotated
C4_WitnessUnrotated ==
    /\ last.ok
    /\ Yields(last.part_before, last.board_before, 0)
    /\ Yields(last.part_before, last.board_before, 90)
    /\ last.part_before.allowed_rotations = << 0, 90 >>
    /\ PartAfter.rotation = 0

----------------------------------------------------------------------------
(* C10: when try_place_part reports failure, the part's width, height,       *)
(* rotation, x, y and board_id are what they were before the call, and the   *)
(* board's free rectangles and placed parts are unchanged.                   *)
C10_FailureLeavesNoTrace ==
    (last.pi # 0 /\ ~last.ok) =>
        /\ PartAfter.width = last.part_before.width
        /\ PartAfter.height = last.part_before.height
        /\ PartAfter.rotation = last.part_before.rotation
        /\ PartAfter.x = last.part_before.x
        /\ PartAfter.y = last.part_before.y
        /\ PartAfter.board_id = last.part_before.board_id
        /\ last.board_id <= Len(boards) =>
             /\ BoardAfter.free_rectangles = last.board_before.free_rectangles
             /\ BoardAfter.placed_parts = last.board_before.placed_parts

\* a failure after both rotations were tried, on a board that holds a part
C10_Witness ==
    /\ last.pi # 0
    /\ ~last.ok
    /\ Len(last.calls) = 2
    /\ last.calls[2].rotation = 90
    /\ last.board_id <= Len(boards)
    /\ last.board_before.placed_parts # << >>

\* a failure of a part with no allowed rotation
C10_WitnessNoRotation ==
    /\ last.pi # 0
    /\ ~last.ok
    /\ last.part_before.allowed_rotations = << >>

----------------------------------------------------------------------------
(* The order of the try_place_part calls, read from the log of attempts *)

\* the parts tried on board k, in the order tried
TriedOn(k) ==
    LET on == SelectSeq(attempts, LAMBDA a : a[1] = k)
    IN  [i \in 1..Len(on) |-> on[i][2]]

\* the pass over the queue for board k has ended
PassEnded(k) == k < board_count \/ pc \in { "check", "loop", "done" }

\* the parts still queued when board k is opened: those no earlier board took
QueuedFor(k) ==
    { i \in 1..Len(parts) : parts[i].board_id = -1 \/ parts[i].board_id >= k }

Area(p) == p.width * p.height

----------------------------------------------------------------------------
(* C5: whatever the input order, the parts are tried on every board in       *)
(* descending order of area: on the first board all parts, largest first; on *)
(* each later board the parts that failed before, in the same relative       *)
(* order; each still-queued part exactly once per board.                     *)
C5_AttemptOrder ==
    pc # "sort" =>
        \A k \in 1..board_count :
            LET t == TriedOn(k)
                n == Len(t)
            IN  /\ \A i, j \in 1..n : i < j =>
                     /\ Area(parts[t[i]]) >= Area(parts[t[j]])
                     /\ t[i] < t[j]
                /\ (k > 1 /\ n > 0) =>
                     \A i, j \in 1..n : i < j =>
                        \E a, b \in 1..Len(TriedOn(k - 1)) :
                           a < b /\ TriedOn(k - 1)[a] = t[i] /\ TriedOn(k - 1)[b] = t[j]
                /\ { t[i] : i \in 1..n } \subseteq QueuedFor(k)
                /\ PassEnded(k) => { t[i] : i \in 1..n } = QueuedFor(k)
                /\ k = 1 /\ PassEnded(k) => t = [i \in 1..Len(parts) |-> i]

\* three parts of three different areas, two of them tried again on a second
\* board
C5_Witness ==
    /\ pc = "done"
    /\ Len(parts) = 3
    /\ Area(parts[1]) > Area(parts[2]) /\ Area(parts[2]) > Area(parts[3])
    /\ Len(TriedOn(1)) = 3
    /\ Len(TriedOn(2)) = 2

----------------------------------------------------------------------------
(* C2: when a freshly opened board ends its pass over the queue with no part *)
(* on it, the board is removed from the result, nest_parts opens no further  *)
(* board and returns the boards completed before, their placements           *)
(* unchanged; a material whose only part fits no empty board yields no board *)
(* at all.                                                                   *)
C2_Unplaceable ==
    [][ /\ (pc = "check" /\ boards[Len(boards)].placed_parts = << >>) =>
            /\ boards' = SubSeq(boards, 1, Len(boards) - 1)
            /\ Len(boards') = board_count - 1
            /\ \A k \in 1..Len(boards') : boards'[k].placed_parts # << >>
            /\ parts' = parts
            /\ board_count' = board_count
            /\ pc' = "done"
            /\ Len(parts) = 1 => boards' = << >>
        /\ pc = "done" => boards' = boards /\ parts' = parts /\ pc' = "done"
      ]_vars

\* nest_parts returned after the failure, with a board completed before it
C2_Witness ==
    /\ pc = "done"
    /\ diag # 0
    /\ Len(boards) >= 1
    /\ board_count = Len(boards) + 1

\* the only part of the material fits no empty board: no board is returned
C2_WitnessNoBoard ==
    /\ pc = "done"
    /\ diag # 0
    /\ Len(parts) = 1
    /\ boards = << >>

----------------------------------------------------------------------------
(* C3: nest_parts leaves a part unplaced only if find_best_position rejects  *)
(* it, in every allowed rotation and with the kerf, on a new empty board of  *)
(* the material; every part that fits an empty board in some allowed         *)
(* rotation is on a returned board, whatever else is in the list.            *)
FitsEmptyBoard(p) ==
    \E r \in 1..Len(p.allowed_rotations) :
        Yields(p, Board(0, board_width, board_height), p.allowed_rotations[r])

OnReturnedBoard(i) ==
    \E k \in 1..Len(boards) :
        \E j \in 1..Len(boards[k].placed_parts) : boards[k].placed_parts[j] = i

C3_OnlyUnplaceableLeft ==
    pc = "done" =>
        \A i \in 1..Len(parts) :
            /\ ~OnReturnedBoard(i) => ~FitsEmptyBoard(parts[i])
            /\ FitsEmptyBoard(parts[i]) => OnReturnedBoard(i) /\ parts[i].board_id >= 1

\* a part that fits no board, and two parts placed on two boards around it
C3_Witness ==
    /\ pc = "done"
    /\ diag # 0
    /\ Len(boards) = 2
    /\ \E i \in 1..Len(parts) : ~OnReturnedBoard(i) /\ parts[i].allowed_rotations # << >>
    /\ \E i \in 1..Len(parts) : OnReturnedBoard(i) /\ parts[i].rotation = 90

----------------------------------------------------------------------------
(* Termination of nest_parts, by a variant: a bound on the steps still to    *)
(* come that every step lowers.                                              *)

\* steps from the head of the loop with q parts queued, if every pass takes
\* one part only: open a board, q attempts, the test, and the rest
RECURSIVE StepsFromLoop(_)
StepsFromLoop(q) == IF q <= 0 THEN 1 ELSE q + 2 + StepsFromLoop(q - 1)

Variant ==
    LET q == Len(remaining_parts)
    IN  CASE pc = "sort"  -> StepsFromLoop(Len(parts)) + 1
          [] pc = "loop"  -> StepsFromLoop(q)
          [] pc = "place" -> (q - pos + 1) + 1 + StepsFromLoop(q - 1)
          [] pc = "check" -> 1 + StepsFromLoop(q - 1)
          [] OTHER        -> 0

\* nest_parts has a next step: the enabling conditions of the actions of Next,
\* the guard of each with the existence of the values its step chooses
HasNextStep ==
    \/ pc = "sort" /\ StdSort(parts, part_order(parts)) # {}
    \/ pc = "loop"
    \/ /\ pc = "place"
       /\ boards # << >>
       /\ pos \in 1..Len(remaining_parts)
       /\ remaining_parts[pos] \in 1..Len(parts)
       /\ try_place_part(parts[remaining_parts[pos]], remaining_parts[pos],
                         boards[Len(boards)], kerf) # {}
    \/ pc = "check" /\ boards # << >>

----------------------------------------------------------------------------
(* C11: nest_parts terminates: every pass of the board loop either places a  *)
(* part, and the queue of unplaced parts is strictly shorter for the next    *)
(* pass, or places none and leaves the loop; the number of boards opened     *)
(* never exceeds the number of parts plus one.  Termination is the variant:  *)
(* every step lowers it, it is never negative, and nest_parts has a next     *)
(* step until it has returned.                                               *)
C11_Terminates ==
    /\ [](Variant >= 0)
    /\ [](pc # "done" => HasNextStep)
    /\ [](board_count <= Len(parts) + 1)
    /\ [][ /\ Variant' < Variant
           /\ pc = "check" =>
                \/ /\ boards[Len(boards)].placed_parts # << >>
                   /\ Len(remaining_parts') < Len(remaining_parts)
                   /\ pc' = "loop"
                \/ /\ boards[Len(boards)].placed_parts = << >>
                   /\ pc' = "done"
         ]_vars

\* nest_parts returned after three passes: two boards took a part each, the
\* third took none
C11_Witness ==
    /\ pc = "done"
    /\ Len(parts) = 3
    /\ board_count = 3
    /\ Len(boards) = 2
    /\ diag # 0

----------------------------------------------------------------------------
(* C12: when nest_parts returns, the returned boards carry the ids 1..n in   *)
(* order and none is empty; every part is in the placed list of at most one  *)
(* board, at most once; a part listed on board k has board_id = k; a part    *)
(* listed on no board has board_id = -1: placed and unplaced parts partition *)
(* the input list.                                                           *)

\* the places <<k, j>> of the returned boards' placed lists that hold part i
ListedAt(i) ==
    { kj \in (1..Len(boards)) \X (1..MaxParts) :
        /\ kj[2] <= Len(boards[kj[1]].placed_parts)
        /\ boards[kj[1]].placed_parts[kj[2]] = i }

C12_BoardsAndParts ==
    pc = "done" =>
        /\ \A k \in 1..Len(boards) :
              /\ boards[k].id = k
              /\ boards[k].placed_parts # << >>
              /\ \A j \in 1..Len(boards[k].placed_parts) :
                    boards[k].placed_parts[j] \in 1..Len(parts)
        /\ \A i \in 1..Len(parts) :
              /\ Cardinality(ListedAt(i)) <= 1
              /\ \A kj \in ListedAt(i) : parts[i].board_id = kj[1]
              /\ ListedAt(i) = {} => parts[i].board_id = -1

\* nest_parts returned two boards, with a part on the second and a part on none
C12_Witness ==
    /\ pc = "done"
    /\ Len(boards) = 2
    /\ \E i \in 1..Len(parts) : ListedAt(i) # {} /\ parts[i].board_id = 2
    /\ \E i \in 1..Len(parts) : ListedAt(i) = {} /\ parts[i].board_id = -1

\* nest_parts returned one board holding two parts
C12_WitnessShared ==
    /\ pc = "done"
    /\ Len(boards) = 1
    /\ Len(boards[1].placed_parts) = 2

----------------------------------------------------------------------------
(* C13: on every board nest_parts returns, with positive board area,         *)
(* used_area is at most board width x board height, so waste_percentage is   *)
(* between 0 and 100 inclusive; it is 0 exactly when the areas of the parts  *)
(* sum to the board area.                                                    *)

\* used_area and waste_percentage of board b are as the claim says
WasteInRange(b) ==
    LET total == b.width * b.height
        waste == waste_percentage(b, parts)
    IN  total > 0 =>
            /\ used_area(b, parts) <= total
            /\ 0 <= waste.num
            /\ waste.num <= 100 * waste.den
            /\ waste.num = 0 <=> used_area(b, parts) = total

\* the part is larger than the board in the rotation it was placed in
LargerThanBoard(p, b) ==
    LET d == get_rotated_dimensions(p, p.rotation)
    IN  d[1] > b.width \/ d[2] > b.height

C13_AsStated ==
    pc = "done" => \A k \in 1..Len(boards) : WasteInRange(boards[k])

\* The bounds hold on every returned board whose parts are no larger than
\* the board, the waste being 0 exactly on a board filled to its area.
C13_WithoutOversizePart ==
    pc = "done" =>
        \A k \in 1..Len(boards) :
            (\A j \in 1..Len(boards[k].placed_parts) :
                ~LargerThanBoard(parts[boards[k].placed_parts[j]], boards[k]))
            => WasteInRange(boards[k])

\* a returned board with no waste, and a returned board holding two parts
\* with waste
C13_WitnessInRange ==
    /\ pc = "done"
    /\ \E k \in 1..Len(boards) :
          /\ waste_percentage(boards[k], parts).num = 0
          /\ ~LargerThanBoard(parts[boards[k].placed_parts[1]], boards[k])
    /\ \E k \in 1..Len(boards) :
          /\ Len(boards[k].placed_parts) = 2
          /\ waste_percentage(boards[k], parts).num > 0

\* a returned board whose only part is larger than the board: the waste is
\* negative
C13_NegativeWaste ==
    /\ pc = "done"
    /\ \E k \in 1..Len(boards) :
          /\ Len(boards[k].placed_parts) = 1
          /\ LargerThanBoard(parts[boards[k].placed_parts[1]], boards[k])
          /\ used_area(boards[k], parts) > boards[k].width * boards[k].height
          /\ waste_percentage(boards[k], parts).num < 0

====
